---- MODULE Spec2Model ----
(***************************************************************************)
(* A model of catcli's Noder (src/catcli/noder.py): the catalog tree, the  *)
(* node constructors, exact and glob path resolution, recursive size       *)
(* aggregation, the sorting policies, name search and the flattening of    *)
(* archive member lists.                                                   *)
(*                                                                         *)
(* Strings are sequences of one-character strings, so that split, rstrip,  *)
(* lstrip, lower, substring search and fnmatch are computed rather than    *)
(* assumed.  The tree is an arena: tree[i] is the i-th node created, its   *)
(* parent a smaller index (0 for the root), and a node's children are the  *)
(* nodes naming it as parent, in creation order (anytree appends a child   *)
(* to parent.children when its parent is set, and Noder never re-parents). *)
(***************************************************************************)
EXTENDS Integers, Sequences, FiniteSets

VARIABLES
    tree,       \* the catalog: a sequence of node records
    sortsize,   \* Noder.sortsize
    arc,        \* Noder.arc
    term,       \* Noder.term, set by find_name and read by _find_name
    res         \* what the last call returned (or that it raised)

vars == <<tree, sortsize, arc, term, res>>

\* ------------------------------------------------------------------ bounds

\* The most nodes a catalog holds, the Top node included.
MaxNodes == 5

\* The byte sizes stat reports for the files indexed.
FileSizes == {1, 2}

\* ------------------------------------------------------------- node types

TOPNAME == <<"t", "o", "p">>
METANAME == <<"m", "e", "t", "a">>
TYPE_TOP == "top"
TYPE_FILE == "file"
TYPE_DIR == "dir"
TYPE_ARC == "arc"
TYPE_STORAGE == "storage"
TYPE_META == "meta"

\* Python's None, as the value of a size attribute.
None == -1

\* os.sep
SEP == "/"

\* -------------------------------------------------------------- characters

\* ord(c), for the characters the names, terms and paths are made of.
Ord(c) ==
    CASE c = "*" -> 42 [] c = "." -> 46 [] c = "/" -> 47 [] c = "?" -> 63
      [] c = "A" -> 65 [] c = "B" -> 66 [] c = "U" -> 85 [] c = "\\" -> 92
      [] c = "a" -> 97 [] c = "b" -> 98 [] c = "e" -> 101 [] c = "m" -> 109
      [] c = "o" -> 111 [] c = "p" -> 112 [] c = "t" -> 116 [] c = "u" -> 117
      [] c = "x" -> 120

\* str.lower(), one character
LowerChar(c) ==
    CASE c = "A" -> "a" [] c = "B" -> "b" [] c = "U" -> "u" [] OTHER -> c

\* str.lower()
lower(s) == [i \in 1..Len(s) |-> LowerChar(s[i])]

\* str.rstrip(ch)
RECURSIVE rstrip(_, _)
rstrip(s, ch) ==
    IF s # <<>> /\ s[Len(s)] = ch THEN rstrip(SubSeq(s, 1, Len(s) - 1), ch) ELSE s

\* str.lstrip(chars)
RECURSIVE lstrip(_, _)
lstrip(s, chars) ==
    IF s # <<>> /\ Head(s) \in chars THEN lstrip(Tail(s), chars) ELSE s

\* str.split(sep): the pieces between the separators, empty ones kept
RECURSIVE SplitFrom(_, _, _)
SplitFrom(s, sep, cur) ==
    IF s = <<>> THEN <<cur>>
    ELSE IF Head(s) = sep THEN <<cur>> \o SplitFrom(Tail(s), sep, <<>>)
    ELSE SplitFrom(Tail(s), sep, Append(cur, Head(s)))

split(s, sep) == SplitFrom(s, sep, <<>>)

\* sep.join(parts)
RECURSIVE join(_, _)
join(parts, sep) ==
    IF parts = <<>> THEN <<>>
    ELSE IF Len(parts) = 1 THEN parts[1]
    ELSE parts[1] \o <<sep>> \o join(Tail(parts), sep)

\* sub in s
Contains(s, sub) ==
    \E i \in 0..(Len(s) - Len(sub)) : SubSeq(s, i + 1, i + Len(sub)) = sub

\* s < t for Python strings: lexicographic on code points
RECURSIVE StrLess(_, _)
StrLess(s, t) ==
    IF t = <<>> THEN FALSE
    ELSE IF s = <<>> THEN TRUE
    ELSE IF Ord(Head(s)) # Ord(Head(t)) THEN Ord(Head(s)) < Ord(Head(t))
    ELSE StrLess(Tail(s), Tail(t))

\* ------------------------------------------------------------------- tree

Nodes(t) == 1..Len(t)

\* node.children: the nodes whose parent is n, in creation order
RECURSIVE ChildrenFrom(_, _, _)
ChildrenFrom(t, n, i) ==
    IF i > Len(t) THEN <<>>
    ELSE IF t[i].parent = n THEN <<i>> \o ChildrenFrom(t, n, i + 1)
    ELSE ChildrenFrom(t, n, i + 1)

children(t, n) == ChildrenFrom(t, n, 1)

\* node.ancestors: from the root down to the parent
RECURSIVE ancestors(_, _)
ancestors(t, n) ==
    IF t[n].parent = 0 THEN <<>>
    ELSE Append(ancestors(t, t[n].parent), t[n].parent)

\* hasattr(node, a)
HasAttr(t, n, a) == a \in t[n].attrs

\* anytree.AnyNode(name=, type=, parent=, ...): attrs are the optional
\* attributes the constructor call passes (size, relpath)
AnyNode(name, type, parent, attrs, size, relpath) ==
    [name |-> name, type |-> type, parent |-> parent, attrs |-> attrs,
     size |-> size, relpath |-> relpath]

\* ---------------------------------------------------------------- results

\* The return value of a call: its kind is "node" (node), "list" (nodes),
\* "int" (num), "None" or "raise"; path, flag and names are the call's inputs.
Res(op, kind, node, nodes, num, path, flag, names) ==
    [op |-> op, kind |-> kind, node |-> node, nodes |-> nodes, num |-> num,
     path |-> path, flag |-> flag, names |-> names]

NoRes == Res("init", "None", 0, <<>>, 0, <<>>, FALSE, <<>>)

\* ------------------------------------------------------ Resolver (anytree)

\* anytree.resolver.Resolver('name').get(node, path) for a relative path:
\* "" and "." stay, ".." goes to the parent, any other part goes to the
\* first child of that name.  err is "" on success, "ChildResolverError"
\* when no child has the name, "AttributeError" when a part is looked up
\* below the root's missing parent.
RECURSIVE GetParts(_, _, _)
GetParts(t, node, parts) ==
    IF parts = <<>> THEN [err |-> "", node |-> node]
    ELSE LET part == Head(parts) IN
        IF part = <<".", ".">> THEN
            IF node = 0 THEN [err |-> "AttributeError", node |-> 0]
            ELSE GetParts(t, t[node].parent, Tail(parts))
        ELSE IF part = <<>> \/ part = <<".">> THEN GetParts(t, node, Tail(parts))
        ELSE IF node = 0 THEN [err |-> "AttributeError", node |-> 0]
        ELSE LET cs == SelectSeq(children(t, node), LAMBDA c : t[c].name = part) IN
            IF cs = <<>> THEN [err |-> "ChildResolverError", node |-> 0]
            ELSE GetParts(t, Head(cs), Tail(parts))

ResolverGet(t, node, path) == GetParts(t, node, split(path, SEP))

\* -------------------------------------------------------- node creation

\* Noder._node
_node(name, type, relpath, parent, size) ==
    AnyNode(name, type, parent, {"size", "relpath"}, size, relpath)

\* Noder.new_top_node
new_top_node == AnyNode(TOPNAME, TYPE_TOP, 0, {}, None, <<>>)

\* Noder.archive_node
archive_node(t, name, path, parent) ==
    Append(t, AnyNode(name, TYPE_ARC, parent, {"size", "relpath"}, 0, path))

\* _add_entry with the fallback child named by the member's whole path.
_add_entry_FullName(t, name, top) ==
    LET entries == split(rstrip(name, SEP), SEP) IN
    IF Len(entries) = 1 THEN archive_node(t, name, name, top)
    ELSE LET sub == join(SubSeq(entries, 1, Len(entries) - 1), SEP)
             f == entries[Len(entries)]
             r == ResolverGet(t, top, sub)
         IN IF r.err = "ChildResolverError" THEN archive_node(t, name, name, top)
            ELSE archive_node(t, f, name, r.node)

\* Noder._add_entry
_add_entry(t, name, top) ==
    LET entries == split(rstrip(name, SEP), SEP) IN
    IF Len(entries) = 1 THEN archive_node(t, name, name, top)
    ELSE LET sub == join(SubSeq(entries, 1, Len(entries) - 1), SEP)
             f == entries[Len(entries)]
             r == ResolverGet(t, top, sub)
         IN IF r.err = "ChildResolverError" THEN archive_node(t, f, name, top)
            ELSE archive_node(t, f, name, r.node)

\* Noder.list_to_tree
RECURSIVE list_to_tree(_, _, _)
list_to_tree(t, parent, names) ==
    IF names = <<>> THEN t
    ELSE list_to_tree(_add_entry(t, rstrip(Head(names), SEP), parent),
                      parent, Tail(names))

\* The names of the directories from below the Storage down to node n: what
\* os.path.relpath(path, start=storagepath) is for the path the walker is at.
DirParts(t, n) ==
    LET chain == Append(ancestors(t, n), n)
        dirs == SelectSeq(chain, LAMBDA a : t[a].type = TYPE_DIR)
    IN [i \in 1..Len(dirs) |-> t[dirs[i]].name]

\* os.path.basename(storagepath): the walker's storage path, taken to end in
\* the Storage's name
StorageBase(t, n) ==
    LET chain == Append(ancestors(t, n), n)
        sts == SelectSeq(chain, LAMBDA a : t[a].type = TYPE_STORAGE)
    IN [i \in 1..Len(sts) |-> t[sts[i]].name]

\* The names callers give to storages, and to directories and files.
StorageNames == {<<"u">>}
EntryNames == {<<"a">>, <<".", "B">>}
OneName == {<<"a">>}

\* What the archive lister reports for an archive file: nothing, a/b, a/b/,
\* or a/ and then a/b.
MemberLists ==
    { <<>>,
      << <<"a", "/", "b">> >>,
      << <<"a", "/", "b", "/">> >>,
      << <<"a", "/">>, <<"a", "/", "b">> >> }

\* The nodes a walk can add a child to next: the Storage and Dir nodes on the
\* path from Top to the node created last.  The walker indexes depth first
\* (a directory's entries, each sub-directory's in turn), so the arena is in
\* pre-order.
OpenParents(t) ==
    {n \in Nodes(t) :
        /\ t[n].type \in {TYPE_STORAGE, TYPE_DIR}
        /\ \/ n = Len(t)
           \/ \E i \in 1..Len(ancestors(t, Len(t))) : ancestors(t, Len(t))[i] = n}

\* Noder.update_metanode, the new Meta node attached under Top as the
\* catalog does before saving; a later call only restamps the node.
update_metanode ==
    /\ \E m \in {0} \cup {n \in Nodes(tree) : tree[n].type = TYPE_META} :
        IF m = 0
        THEN /\ ~\E n \in Nodes(tree) : tree[n].type = TYPE_META
             /\ Len(tree) < MaxNodes
             /\ tree' = Append(tree, AnyNode(METANAME, TYPE_META, 1, {}, None, <<>>))
             /\ res' = Res("update_metanode", "node", Len(tree) + 1, <<>>, 0, <<>>, FALSE, <<>>)
        ELSE /\ tree' = tree
             /\ res' = Res("update_metanode", "node", m, <<>>, 0, <<>>, FALSE, <<>>)
    /\ UNCHANGED <<sortsize, arc, term>>

\* Noder.storage_node, called with the Top node as parent
storage_node ==
    /\ Len(tree) < MaxNodes
    /\ \E name \in StorageNames :
        /\ tree' = Append(tree, AnyNode(name, TYPE_STORAGE, 1, {}, None, <<>>))
        /\ res' = Res("storage_node", "node", Len(tree) + 1, <<>>, 0, <<>>, FALSE, <<>>)
    /\ UNCHANGED <<sortsize, arc, term>>

\* Noder.dir_node, called with a Storage or Dir node as parent and a name of E
dir_node(E) ==
    /\ Len(tree) < MaxNodes
    /\ \E name \in E, parent \in OpenParents(tree) :
        /\ tree' = Append(tree, _node(name, TYPE_DIR,
                                      join(Append(DirParts(tree, parent), name), SEP),
                                      parent, None))
        /\ res' = Res("dir_node", "node", Len(tree) + 1, <<>>, 0, <<>>, FALSE, <<>>)
    /\ UNCHANGED <<sortsize, arc, term>>

\* Noder.file_node when os.path.exists or os.lstat fails
file_node_missing ==
    /\ tree' = tree
    /\ res' = Res("file_node", "None", 0, <<>>, 0, <<>>, FALSE, <<>>)
    /\ UNCHANGED <<sortsize, arc, term>>

\* Noder.file_node, called with a Storage or Dir node as parent and a name of
\* E.  size is
\* st_size; names is Decomp.get_names(path) when the extension is one of
\* Decomp's formats, and empty when it is not.
file_node(E) ==
    /\ Len(tree) < MaxNodes
    /\ \E name \in E, parent \in OpenParents(tree), size \in FileSizes,
          names \in (IF arc THEN MemberLists ELSE {<<>>}) :
        LET n == Len(tree) + 1
            relpath == join(StorageBase(tree, parent)
                              \o DirParts(tree, parent) \o <<name>>, SEP)
            t1 == Append(tree, _node(name, TYPE_FILE, relpath, parent, size))
        IN /\ n + Len(names) <= MaxNodes
           /\ tree' = list_to_tree(t1, n, names)
           /\ res' = Res("file_node", "node", n, <<>>, 0, <<>>, FALSE, names)
    /\ UNCHANGED <<sortsize, arc, term>>

\* ------------------------------------------------------------ aggregation

\* node.size = size
SetSize(t, n, size) ==
    [t EXCEPT ![n].size = size, ![n].attrs = @ \cup {"size"}]

RECURSIVE RecSize(_, _), RecChildren(_, _, _, _)

\* LoopBody with the sum of a Dir taken over its File children only.
LoopBody_FilesOnly(t, n, i, size) ==
    IF t[n].type = TYPE_DIR
    THEN LET r == RecSize(t, i)
         IN [t |-> r.t, val |-> IF t[i].type = TYPE_FILE THEN size + r.val ELSE size]
    ELSE IF t[n].type = TYPE_STORAGE
    THEN LET r == RecSize(t, i) IN [t |-> r.t, val |-> size]
    ELSE [t |-> t, val |-> size]

\* LoopBody with a Storage summed like a Dir.
LoopBody_StorageSummed(t, n, i, size) ==
    IF t[n].type \in {TYPE_DIR, TYPE_STORAGE}
    THEN LET r == RecSize(t, i) IN [t |-> r.t, val |-> size + r.val]
    ELSE [t |-> t, val |-> size]

\* LoopBody with the children of every other node recursed into as well.
LoopBody_AlwaysRecurse(t, n, i, size) ==
    IF t[n].type = TYPE_DIR
    THEN LET r == RecSize(t, i) IN [t |-> r.t, val |-> size + r.val]
    ELSE LET r == RecSize(t, i) IN [t |-> r.t, val |-> size]

\* One pass of the loop of rec_size over node n's child i, size being the
\* running total: the tree and the total after it.
LoopBody(t, n, i, size) ==
    IF t[n].type = TYPE_DIR
    THEN LET r == RecSize(t, i) IN [t |-> r.t, val |-> size + r.val]
    ELSE IF t[n].type = TYPE_STORAGE
    THEN LET r == RecSize(t, i) IN [t |-> r.t, val |-> size]
    ELSE [t |-> t, val |-> size]

\* for i in node.children: ...
RecChildren(t, n, cs, size) ==
    IF cs = <<>> THEN [t |-> t, val |-> size]
    ELSE LET r == LoopBody(t, n, Head(cs), size)
         IN RecChildren(r.t, n, Tail(cs), r.val)

\* StartSize with the total started from the size the node already stores.
StartSize_Accumulate(t, n) ==
    IF HasAttr(t, n, "size") /\ t[n].size # None THEN t[n].size ELSE 0

\* size = 0, before the loop
StartSize(t, n) == 0

\* Noder.rec_size on tree t: the tree after it and the value returned
RecSize(t, n) ==
    IF t[n].type = TYPE_FILE THEN [t |-> t, val |-> t[n].size]
    ELSE LET r == RecChildren(t, n, children(t, n), StartSize(t, n))
         IN [t |-> SetSize(r.t, n, r.val), val |-> r.val]

\* Noder.rec_size(node)
rec_size ==
    /\ \E n \in Nodes(tree) :
        LET r == RecSize(tree, n) IN
        /\ tree' = r.t
        /\ res' = Res("rec_size", "int", n, <<>>, r.val, <<>>, FALSE, <<>>)
    /\ UNCHANGED <<sortsize, arc, term>>

\* ----------------------------------------------------------------- sorting

\* Noder._sort_size
_sort_size(t, n) ==
    IF ~HasAttr(t, n, "size") THEN 0
    ELSE IF t[n].size = None \/ t[n].size = 0 THEN 0
    ELSE t[n].size

\* Noder._sort_fs
_sort_fs(t, n) == <<t[n].type, lower(lstrip(t[n].name, {"\\", "."}))>>

\* Noder._sort
_sort(t, ss, x) == IF ss THEN _sort_size(t, x) ELSE _sort_fs(t, x)

\* The type tags in the order Python compares them as strings.
TypeOrder == <<TYPE_ARC, TYPE_DIR, TYPE_FILE, TYPE_META, TYPE_STORAGE, TYPE_TOP>>
TypeRank(type) == CHOOSE i \in 1..Len(TypeOrder) : TypeOrder[i] = type

\* k1 < k2 for two keys of _sort: integers, or (type, name) tuples
KeyLess(ss, k1, k2) ==
    IF ss THEN k1 < k2
    ELSE \/ TypeRank(k1[1]) < TypeRank(k2[1])
         \/ k1[1] = k2[1] /\ StrLess(k1[2], k2[2])

Reverse(s) == [i \in 1..Len(s) |-> s[Len(s) + 1 - i]]

\* x put into the sorted list after every element that is not greater
RECURSIVE Insert(_, _, _, _)
Insert(t, ss, sorted, x) ==
    IF sorted = <<>> THEN <<x>>
    ELSE IF KeyLess(ss, _sort(t, ss, x), _sort(t, ss, Head(sorted)))
         THEN <<x>> \o sorted
         ELSE <<Head(sorted)>> \o Insert(t, ss, Tail(sorted), x)

\* A stable ascending sort by the key of _sort
RECURSIVE StableSort(_, _, _)
StableSort(t, ss, items) ==
    IF items = <<>> THEN <<>>
    ELSE Insert(t, ss, StableSort(t, ss, SubSeq(items, 1, Len(items) - 1)),
                items[Len(items)])

\* sorted with the ascending result simply reversed when reverse is set.
sorted_PlainReverse(t, ss, items, reverse) ==
    IF reverse THEN Reverse(StableSort(t, ss, items))
    ELSE StableSort(t, ss, items)

\* sorted(items, key=self._sort, reverse=reverse): list.sort reverses the
\* list, sorts it stably and reverses the result when reverse is set
sorted(t, ss, items, reverse) ==
    IF reverse THEN Reverse(StableSort(t, ss, Reverse(items)))
    ELSE StableSort(t, ss, items)

\* Noder._sort_tree
SortTree(t, ss, items) == sorted(t, ss, items, ss)

\* Noder._sort_tree(node.children), as print_tree's child iterator calls it
_sort_tree ==
    /\ \E n \in Nodes(tree) :
        res' = Res("_sort_tree", "list", n, SortTree(tree, sortsize, children(tree, n)),
                   0, <<>>, FALSE, <<>>)
    /\ UNCHANGED <<tree, sortsize, arc, term>>

\* --------------------------------------------------------------- searching

\* anytree.PreOrderIter(root)
RECURSIVE PreOrder(_, _), PreOrderAll(_, _)
PreOrder(t, n) == <<n>> \o PreOrderAll(t, children(t, n))
PreOrderAll(t, cs) ==
    IF cs = <<>> THEN <<>> ELSE PreOrder(t, Head(cs)) \o PreOrderAll(t, Tail(cs))

\* Noder._find_name, trm being self.term
_find_name(t, trm, node) == Contains(lower(t[node].name), lower(trm))

\* anytree.findall(root, filter_=self._find_name)
findall(t, root, trm) ==
    SelectSeq(PreOrder(t, root), LAMBDA n : _find_name(t, trm, n))

\* Whether the body of find_name's loop raises for the found node f:
\* _get_storage reads node.ancestors[1] for a File or Dir, and the loop reads
\* f.relpath.
LoopRaises(t, f) ==
    /\ t[f].type # TYPE_STORAGE
    /\ \/ t[f].type \in {TYPE_FILE, TYPE_DIR} /\ Len(ancestors(t, f)) < 2
       \/ ~HasAttr(t, f, "relpath")

\* What find_name returns
FindName(t, root, key) ==
    LET found == findall(t, root, key) IN
    IF \E i \in 1..Len(found) : LoopRaises(t, found[i])
    THEN [kind |-> "raise", nodes |-> <<>>]
    ELSE [kind |-> "list", nodes |-> found]

\* The search terms
Terms == {<<"U">>, <<"o">>, <<"b">>}

\* Noder.find_name(top, key)
find_name ==
    /\ \E key \in Terms :
        LET r == FindName(tree, 1, key) IN
        /\ term' = key
        /\ res' = Res("find_name", r.kind, 1, r.nodes, 0, key, FALSE, <<>>)
    /\ UNCHANGED <<tree, sortsize, arc>>

\* ---------------------------------------------------------------- climbing

\* fnmatch: * matches any run of characters, ? any one character
RECURSIVE Match(_, _)
Match(name, pat) ==
    IF pat = <<>> THEN name = <<>>
    ELSE IF Head(pat) = "*"
         THEN Match(name, Tail(pat)) \/ (name # <<>> /\ Match(Tail(name), pat))
    ELSE IF name = <<>> THEN FALSE
    ELSE (Head(pat) = "?" \/ Head(pat) = Head(name)) /\ Match(Tail(name), Tail(pat))

\* Resolver.is_wildcard
is_wildcard(pat) == \E i \in 1..Len(pat) : pat[i] \in {"?", "*"}

\* anytree's Resolver.glob below node for the pattern parts, none of them
\* "", "." or "..": the children matching the first part, each resolved
\* further for the rest.  A ChildResolverError (err) below a child is
\* dropped when the part is a wildcard, and one is raised when a part that
\* is no wildcard matches nothing.
RECURSIVE Glob(_, _, _), GlobFind(_, _, _, _)
Glob(t, node, parts) ==
    LET name == Head(parts)
        m == GlobFind(t, children(t, node), name, Tail(parts))
    IN IF m.err THEN m
       ELSE IF m.nodes = <<>> /\ ~is_wildcard(name) THEN [err |-> TRUE, nodes |-> <<>>]
       ELSE m

GlobFind(t, cs, pat, remainder) ==
    IF cs = <<>> THEN [err |-> FALSE, nodes |-> <<>>]
    ELSE LET child == Head(cs)
             here == IF ~Match(t[child].name, pat) THEN [err |-> FALSE, nodes |-> <<>>]
                     ELSE IF remainder = <<>> THEN [err |-> FALSE, nodes |-> <<child>>]
                     ELSE LET g == Glob(t, child, remainder)
                          IN IF g.err /\ is_wildcard(pat)
                             THEN [err |-> FALSE, nodes |-> <<>>] ELSE g
         IN IF here.err THEN here
            ELSE LET rest == GlobFind(t, Tail(cs), pat, remainder)
                 IN IF rest.err THEN rest
                    ELSE [err |-> FALSE, nodes |-> here.nodes \o rest.nodes]

\* GetNode with the ChildResolverError left uncaught.
GetNode_Uncaught(t, top, path) ==
    LET r == ResolverGet(t, top, path) IN
    IF r.err = "" THEN [kind |-> IF r.node = 0 THEN "None" ELSE "node", node |-> r.node]
    ELSE [kind |-> "raise", node |-> 0]

\* What get_node returns: the node, or None after a ChildResolverError; any
\* other error is not caught
GetNode(t, top, path) ==
    LET r == ResolverGet(t, top, path) IN
    IF r.err = "" THEN [kind |-> IF r.node = 0 THEN "None" ELSE "node", node |-> r.node]
    ELSE IF r.err = "ChildResolverError" THEN [kind |-> "None", node |-> 0]
    ELSE [kind |-> "raise", node |-> 0]

\* What walk returns
Walk(t, ss, root, path, rec) ==
    LET g == Glob(t, root, split(path, SEP)) IN
    IF g.err THEN [kind |-> "list", nodes |-> <<>>]
    ELSE IF Len(g.nodes) < 1 THEN [kind |-> "list", nodes |-> <<>>]
    ELSE IF t[g.nodes[1]].parent = 0 THEN [kind |-> "raise", nodes |-> <<>>]
    ELSE IF rec THEN [kind |-> "None", nodes |-> <<>>]
    ELSE [kind |-> "list", nodes |-> sorted(t, ss, g.nodes, ss)]

\* The paths asked for: u/a, u/a/.B, u/x and a/a
Paths ==
    { <<"u", "/", "a">>, <<"u", "/", "a", "/", ".", "B">>,
      <<"u", "/", "x">>, <<"a", "/", "a">> }

\* The patterns listed: u/*, */a/?B, u/x and u/x/*
Patterns ==
    { <<"u", "/", "*">>, <<"*", "/", "a", "/", "?", "B">>,
      <<"u", "/", "x">>, <<"u", "/", "x", "/", "*">> }

\* Noder.get_node(top, path)
get_node ==
    /\ \E path \in Paths :
        LET r == GetNode(tree, 1, path) IN
        res' = Res("get_node", r.kind, r.node, <<>>, 0, path, FALSE, <<>>)
    /\ UNCHANGED <<tree, sortsize, arc, term>>

\* Noder.walk(top, path, rec)
walk ==
    /\ \E path \in Patterns, rec \in BOOLEAN :
        LET r == Walk(tree, sortsize, 1, path, rec) IN
        res' = Res("walk", r.kind, 0, r.nodes, 0, path, rec, <<>>)
    /\ UNCHANGED <<tree, sortsize, arc, term>>

\* ------------------------------------------------------------------- spec

\* The state after Noder(sortsize=s, arc=a) and new_top_node()
InitCfg(s, a) ==
    /\ tree = <<new_top_node>>
    /\ sortsize = s
    /\ arc = a
    /\ term = <<>>
    /\ res = NoRes

Init == \E s \in BOOLEAN, a \in BOOLEAN : InitCfg(s, a)

\* The tree builder, the entries named from E
Build(E) ==
    \/ update_metanode
    \/ storage_node
    \/ dir_node(E)
    \/ file_node(E)
    \/ file_node_missing

Next == Build(EntryNames) \/ rec_size \/ _sort_tree \/ find_name \/ get_node \/ walk
Spec == Init /\ [][Next]_vars

\* Building alone
SpecBuild == Init /\ [][Build(EntryNames)]_vars

\* Building and aggregating
NextSize == Build(OneName) \/ rec_size
SpecSize == InitCfg(FALSE, TRUE) /\ [][NextSize]_vars

\* Building, aggregating and sorting by size
NextSort == Build(OneName) \/ rec_size \/ _sort_tree
SpecSort == InitCfg(TRUE, TRUE) /\ [][NextSort]_vars

\* Building and searching
NextFind == Build(EntryNames) \/ find_name
SpecFind == InitCfg(FALSE, TRUE) /\ [][NextFind]_vars

\* Building and resolving exact paths
NextResolve == Build(EntryNames) \/ get_node
SpecResolve == InitCfg(FALSE, TRUE) /\ [][NextResolve]_vars

\* Building and listing patterns
NextWalk == Build(EntryNames) \/ walk
SpecWalk == (\E s \in BOOLEAN : InitCfg(s, TRUE)) /\ [][NextWalk]_vars

\* ------------------------------------------------------------- properties

\* a is an ancestor of n
IsAncestor(t, a, n) == \E i \in 1..Len(ancestors(t, n)) : ancestors(t, n)[i] = a

\* n is d or below d
InSubtree(t, d, n) == n = d \/ IsAncestor(t, d, n)

\* The stored sizes of the File nodes below d among the nodes i..Len(t), summed
RECURSIVE FileSumFrom(_, _, _)
FileSumFrom(t, d, i) ==
    IF i > Len(t) THEN 0
    ELSE (IF t[i].type = TYPE_FILE /\ IsAncestor(t, d, i) THEN t[i].size ELSE 0)
         + FileSumFrom(t, d, i + 1)

FileSum(t, d) == FileSumFrom(t, d, 1)

\* The nodes reached from a node of S by a chain of children named segs
RECURSIVE ChainEnds(_, _, _)
ChainEnds(t, S, segs) ==
    IF segs = <<>> THEN S
    ELSE ChainEnds(t, {c \in Nodes(t) : t[c].parent \in S /\ t[c].name = Head(segs)},
                   Tail(segs))

\* The nodes reached from a node of S by a chain of children matching pats
RECURSIVE GlobEnds(_, _, _)
GlobEnds(t, S, pats) ==
    IF pats = <<>> THEN S
    ELSE GlobEnds(t, {c \in Nodes(t) : t[c].parent \in S /\ Match(t[c].name, Head(pats))},
                  Tail(pats))

Range(s) == {s[i] : i \in 1..Len(s)}

\* The last call was rec_size on a node of one of the types
Aggregated(types) == res.op = "rec_size" /\ tree[res.node].type \in types

\* C1: after rec_size on a Storage or Dir node, every Dir node of that
\* subtree stores the sum of the stored sizes of the File nodes below it, at
\* any depth; Archive members add nothing.
C1_DirSizeIsFileSum ==
    Aggregated({TYPE_STORAGE, TYPE_DIR}) =>
        \A d \in Nodes(tree) :
            (tree[d].type = TYPE_DIR /\ InSubtree(tree, res.node, d)) =>
                /\ HasAttr(tree, d, "size")
                /\ tree[d].size = FileSum(tree, d)

\* C1's case: a Storage aggregated, with a Dir in a Dir holding a File
C1_Witness ==
    /\ Aggregated({TYPE_STORAGE})
    /\ \E d, e, f \in Nodes(tree) :
        /\ tree[d].type = TYPE_DIR /\ tree[d].parent = res.node
        /\ tree[e].type = TYPE_DIR /\ tree[e].parent = d
        /\ tree[f].type = TYPE_FILE /\ tree[f].parent = e
        /\ tree[d].size > 0

\* C2 as stated: after rec_size on a Storage node, the Storage's own size
\* field is still unset.
C2_StorageSizeUnset ==
    Aggregated({TYPE_STORAGE}) => ~HasAttr(tree, res.node, "size")

\* C2 as amended: after rec_size on a Storage node, each child has been
\* recursed into (a child Dir stores the sum of the Files below it), the
\* call returns 0 and the Storage's own size field is set to 0, whatever the
\* Storage holds.
C2_StorageSizeZero ==
    Aggregated({TYPE_STORAGE}) =>
        /\ res.num = 0
        /\ HasAttr(tree, res.node, "size")
        /\ tree[res.node].size = 0
        /\ \A d \in Nodes(tree) :
            (tree[d].type = TYPE_DIR /\ tree[d].parent = res.node) =>
                tree[d].size = FileSum(tree, d)

\* C2's case: a Storage aggregated that holds Files of positive size
C2_Witness ==
    /\ Aggregated({TYPE_STORAGE})
    /\ FileSum(tree, res.node) > 0
    /\ \E d \in Nodes(tree) :
        tree[d].type = TYPE_DIR /\ tree[d].parent = res.node /\ tree[d].size > 0

\* C8: rec_size run again on the subtree it has just aggregated leaves every
\* node's size field as it is and returns the same total.
C8_Idempotent ==
    res.op = "rec_size" =>
        RecSize(tree, res.node) = [t |-> tree, val |-> res.num]

\* C8's case: a Dir aggregated to a positive size, with a Dir below it
C8_Witness ==
    /\ Aggregated({TYPE_DIR})
    /\ res.num > 0
    /\ \E e \in Nodes(tree) :
        tree[e].type = TYPE_DIR /\ tree[e].parent = res.node /\ tree[e].size > 0

\* C10: rec_size on a node that is neither File, Dir nor Storage returns 0
\* and sets that node's size to 0, and the step changes no other node.
C10_OtherTypesNoRecursion ==
    /\ [](Aggregated({TYPE_TOP, TYPE_META, TYPE_ARC}) =>
            /\ res.num = 0
            /\ HasAttr(tree, res.node, "size")
            /\ tree[res.node].size = 0)
    /\ [][(res'.op = "rec_size"
            /\ tree[res'.node].type \in {TYPE_TOP, TYPE_META, TYPE_ARC}) =>
                /\ Len(tree') = Len(tree)
                /\ \A m \in Nodes(tree) : m # res'.node => tree'[m] = tree[m]]_vars

\* C10's case: Top aggregated above a Dir that holds a File and is still
\* without a size
C10_Witness ==
    /\ Aggregated({TYPE_TOP})
    /\ \E d, f \in Nodes(tree) :
        /\ tree[d].type = TYPE_DIR /\ tree[d].size = None
        /\ tree[f].type = TYPE_FILE /\ tree[f].parent = d

\* C3: the list find_name returns holds no Storage node.
C3_NoStorageInResults ==
    (res.op = "find_name" /\ res.kind = "list") =>
        \A i \in 1..Len(res.nodes) : tree[res.nodes[i]].type # TYPE_STORAGE

\* C4: find_name never raises: it returns the list of the nodes whose name
\* holds the term, case ignored, which is empty when none does.
C4_SearchNeverFails ==
    res.op = "find_name" =>
        /\ res.kind = "list"
        /\ Range(res.nodes) =
            {n \in Nodes(tree) : Contains(lower(tree[n].name), lower(res.path))}

\* C5: walk never raises and returns a list, of all the nodes matching the
\* whole pattern, for either value of rec.
C5_WalkReturnsList ==
    res.op = "walk" =>
        /\ res.kind = "list"
        /\ Range(res.nodes) = GlobEnds(tree, {1}, split(res.path, SEP))

\* Every node the chains of the first k segments reach is the only one
Unambiguous(t, segs) ==
    \A k \in 1..Len(segs) : Cardinality(ChainEnds(t, {1}, SubSeq(segs, 1, k))) <= 1

\* C6: get_node returns the node at the end of a chain of children named by
\* the path's segments, or None (it does not raise) when a node on the way
\* has no child named by the next segment; and it leaves the tree as it is.
C6_ExactResolve ==
    /\ [](res.op = "get_node" =>
            LET segs == split(res.path, SEP) IN
            /\ res.kind \in {"node", "None"}
            /\ res.kind = "node" => res.node \in ChainEnds(tree, {1}, segs)
            /\ res.kind = "None" =>
                \E k \in 1..Len(segs) :
                    \E m \in ChainEnds(tree, {1}, SubSeq(segs, 1, k - 1)) :
                        ChainEnds(tree, {m}, <<segs[k]>>) = {}
            /\ Unambiguous(tree, segs) =>
                (res.kind = "node" <=> ChainEnds(tree, {1}, segs) # {}))
    /\ [][res'.op = "get_node" => tree' = tree]_vars

\* C6's case: a path whose first segment names a Storage and whose last
\* names nothing below it
C6_Witness ==
    /\ res.op = "get_node"
    /\ res.kind = "None"
    /\ ChainEnds(tree, {1}, <<split(res.path, SEP)[1]>>) # {}
    /\ \E d \in Nodes(tree) : tree[d].type = TYPE_DIR

\* The member paths of the file_node call just made whose parent chain names
\* no node below the archive File node when the member is added.  The
\* member res.names[k] is node res.node + k, each member adding one node.
Unresolved(k) ==
    LET name == rstrip(res.names[k], SEP)
        entries == split(name, SEP)
        before == SubSeq(tree, 1, res.node + k - 1)
    IN /\ Len(entries) > 1
       /\ ChainEnds(before, {res.node}, SubSeq(entries, 1, Len(entries) - 1)) = {}

\* C7 as stated: a member whose parent chain does not resolve becomes an
\* Archive child of the archive File node, named by the member's whole path.
C7_FallbackNamedByFullPath ==
    (res.op = "file_node" /\ res.kind = "node") =>
        \A k \in 1..Len(res.names) :
            Unresolved(k) =>
                LET nd == tree[res.node + k] IN
                /\ nd.type = TYPE_ARC
                /\ nd.parent = res.node
                /\ nd.name = rstrip(res.names[k], SEP)

\* C7 as amended: such a member becomes an Archive child of the archive
\* File node, named by the member's last segment; the member's whole path is
\* the child's relpath.
C7_FallbackNamedByLastSegment ==
    (res.op = "file_node" /\ res.kind = "node") =>
        \A k \in 1..Len(res.names) :
            Unresolved(k) =>
                LET nd == tree[res.node + k]
                    entries == split(rstrip(res.names[k], SEP), SEP)
                IN /\ nd.type = TYPE_ARC
                   /\ nd.parent = res.node
                   /\ nd.name = entries[Len(entries)]
                   /\ nd.relpath = rstrip(res.names[k], SEP)
                   /\ nd.size = 0

\* C7's case: an archive whose one member is a/b
C7_Witness ==
    /\ res.op = "file_node"
    /\ res.kind = "node"
    /\ Len(res.names) = 1
    /\ Unresolved(1)
    /\ tree[res.node + 1].parent = res.node

\* The key of the size policy: the stored size, 0 when there is none
SizeKey(n) ==
    IF HasAttr(tree, n, "size") /\ tree[n].size > 0 THEN tree[n].size ELSE 0

\* C9: with sortsize set, _sort_tree returns the siblings it is given, each
\* once, in the order of their stored size (an absent, None or zero size
\* counting as 0), largest first, siblings of equal size in the order they
\* were inserted.
C9_SizePolicy ==
    (res.op = "_sort_tree" /\ sortsize) =>
        LET items == children(tree, res.node)
            out == res.nodes
        IN /\ Len(out) = Len(items)
           /\ Range(out) = Range(items)
           /\ \A i, j \in 1..Len(out) :
                i < j => /\ SizeKey(out[i]) >= SizeKey(out[j])
                         /\ SizeKey(out[i]) = SizeKey(out[j]) => out[i] < out[j]

\* C9's case: three siblings, two of one size and one larger that was
\* inserted after one of them
C9_Witness ==
    /\ res.op = "_sort_tree"
    /\ sortsize
    /\ Len(res.nodes) >= 3
    /\ res.nodes # children(tree, res.node)
    /\ \E i, j \in 1..Len(res.nodes) : i < j /\ SizeKey(res.nodes[i]) = SizeKey(res.nodes[j])

====
